---- MODULE Spec2Model ----
(***************************************************************************)
(* Model of src/client/identity_unlock.rs (crate sqrl): the IdentityUnlock *)
(* block that protects the Identity Unlock Key (IUK) under a rescue code.  *)
(*                                                                         *)
(* Collaborators whose code is outside identity_unlock.rs are modelled     *)
(* from their interface (spec sections 4.1, 4.2, 6):                       *)
(*   - generate_rescue_code returns a code never returned before (fresh    *)
(*     randomness); codes are numbered 1.., and 0 is the empty string "";  *)
(*   - mut_en_scrypt is an ideal key-derivation function: its key is       *)
(*     determined by (password bytes, refreshed cost configuration,        *)
(*     effort) and equals no value obtained any other way;                 *)
(*   - AES-256-GCM is an ideal AEAD in counter mode: the ciphertext is the *)
(*     plaintext XOR a key-dependent keystream, the tag binds key, nonce,  *)
(*     associated data and ciphertext, and no sealed ciphertext is the     *)
(*     all-zero array (IUK bytes live in the low nibble, keystream bytes   *)
(*     in the high nibble);                                                *)
(*   - a collaborator's to_binary may report an encoding error.            *)
(***************************************************************************)
EXTENDS Integers, Sequences, FiniteSets, TLC

\* ------------------------------------------------------------- bounds
MaxCodes == 2        \* rescue codes generate_rescue_code can hand out
MaxIter == 2         \* distinct scrypt iteration counts
MaxIukByte == 1      \* IUK values: the all-zero key and one pattern per b in 1..MaxIukByte

\* ---------------------------------------------------- program constants
IukLen == 32                    \* [u8; 32]
TagLen == 16                    \* [u8; 16]
ScryptSeconds == 7              \* third argument of mut_en_scrypt
SealNonceLen == 256             \* &[0; 256]
OpenNonceLen == 32              \* &[0; 32]
len == 73                       \* WritableDataBlock::len
ScryptConfigLen == 25           \* width of a serialized ScryptConfig
RescueCodeType == 2             \* DataType::RescueCode

\* ------------------------------------------------------------ helpers
Zero(n) == [i \in 1..n |-> 0]

Take(s, n) == SubSeq(s, 1, IF n < Len(s) THEN n ELSE Len(s))

Drop(s, n) == SubSeq(s, (IF n < Len(s) THEN n ELSE Len(s)) + 1, Len(s))

RECURSIVE Xor(_, _)
Xor(a, b) ==
    IF a = 0 THEN b
    ELSE IF b = 0 THEN a
    ELSE (((a % 2) + (b % 2)) % 2) + 2 * Xor(a \div 2, b \div 2)

RECURSIVE SumTo(_, _)
SumTo(s, n) == IF n = 0 THEN 0 ELSE (s[n] + SumTo(s, n - 1)) % 256

Sum(s) == SumTo(s, Len(s))

\* position-weighted sum, weights k, k + 1, ...
RECURSIVE WSumTo(_, _, _)
WSumTo(s, k, n) ==
    IF n = 0 THEN 0 ELSE ((k + n - 1) * s[n] + WSumTo(s, k, n - 1)) % 251

WSum(s, k) == WSumTo(s, k, Len(s))

\* write_u16::<LittleEndian>
U16LE(n) == <<n % 256, (n \div 256) % 256>>

\* ----------------------------------------------------- ScryptConfig
\* iteration counts a derivation can measure and store
IterationFactors == 1..MaxIter

\* write_u32::<LittleEndian> and its inverse
U32LE(n) == <<n % 256, (n \div 256) % 256, (n \div 65536) % 256,
             (n \div 16777216) % 256>>

FromU32LE(b) == b[1] + 256 * b[2] + 65536 * b[3] + 16777216 * b[4]

\* the configuration: salt, log2 of the scrypt N factor, iteration count;
\* serialized in ScryptConfigLen bytes: salt, one byte, a 32-bit count
SaltLen == ScryptConfigLen - 5

Salt(n) == [i \in 1..SaltLen |-> n]

ScryptConfig(random_salt, log_n_factor, iteration_factor) ==
    [random_salt |-> random_salt, log_n_factor |-> log_n_factor,
     iteration_factor |-> iteration_factor]

ScryptConfigToBinary(c) ==
    c.random_salt \o <<c.log_n_factor>> \o U32LE(c.iteration_factor)

ScryptConfigFromBinary(binary) ==
    IF Len(binary) < ScryptConfigLen
    THEN [ok |-> FALSE, val |-> ScryptConfig(Salt(0), 0, 0), rest |-> binary]
    ELSE [ok |-> TRUE,
          val |-> ScryptConfig(SubSeq(binary, 1, SaltLen), binary[SaltLen + 1],
                               FromU32LE(SubSeq(binary, SaltLen + 2, ScryptConfigLen))),
          rest |-> Drop(binary, ScryptConfigLen)]

DataTypeToBinary(t) == U16LE(t)

\* --------------------------------------------- rescue codes and keys
Codes == 0..MaxCodes            \* 0 is the empty string

NoKey == [kind |-> 0, code |-> 0, salt |-> <<>>, log_n |-> 0, iter |-> 0, secs |-> 0]

\* generate_rescue_code(): the next unused code
generate_rescue_code(fresh) == fresh

\* decode_rescue_code(rescue_code): the raw key material of the code text
decode_rescue_code(rescue_code) ==
    [kind |-> 2, code |-> rescue_code, salt |-> <<>>, log_n |-> 0, iter |-> 0,
     secs |-> 0]

\* mut_en_scrypt(password, &mut scrypt_config, secs): the derivation stores
\* the iteration count it measured, `refreshed`, in the configuration, and
\* the key is derived against the refreshed configuration
mut_en_scrypt(password, scrypt_config, secs, refreshed) ==
    [key |-> [kind |-> 1, code |-> password, salt |-> scrypt_config.random_salt,
              log_n |-> scrypt_config.log_n_factor, iter |-> refreshed,
              secs |-> secs],
     scrypt_config |-> [scrypt_config EXCEPT !.iteration_factor = refreshed]]

\* ---------------------------------------------------------- AES-GCM
\* six numbers that identify a key
KeyField(key, j) ==
    IF j = 0 THEN key.kind
    ELSE IF j = 1 THEN key.code
    ELSE IF j = 2 THEN Sum(key.salt)
    ELSE IF j = 3 THEN WSum(key.salt, 1) + key.log_n
    ELSE IF j = 4 THEN Sum(U32LE(key.iter))
    ELSE key.secs

\* the key stream: high nibbles only, the first of them not zero
KeyStreamOf(fields) == [i \in 1..IukLen |-> 16 * (fields[(i - 1) % 6] % 16)]

KeyStream(key) == KeyStreamOf([j \in 0..5 |-> KeyField(key, j)])

\* the primitive uses one canonical all-zero nonce whatever its declared length
EffectiveNonce(nonce_len) == 0

\* byte i of the tag: a digest of key, nonce, associated data and ciphertext
GcmTagByte(key, nonce_len, aad_bytes, ct, i) ==
    IF i <= 6 THEN KeyField(key, i - 1) % 256
    ELSE IF i = 7 THEN EffectiveNonce(nonce_len)
    ELSE IF i = 8 THEN Sum(aad_bytes)
    ELSE IF i = 9 THEN WSum(aad_bytes, 1)
    ELSE IF i = 10 THEN Len(aad_bytes) % 256
    ELSE IF i = 11 THEN Sum(ct)
    ELSE IF i = 12 THEN WSum(ct, 1)
    ELSE 255

GcmTag(key, nonce_len, aad_bytes, ct) ==
    [i \in 1..TagLen |-> GcmTagByte(key, nonce_len, aad_bytes, ct, i)]

\* AesGcm::new(..).encrypt(input, output, tag)
AesGcmEncrypt(key, nonce_len, aad_bytes, input) ==
    LET ks == KeyStream(key)
        ct == [i \in 1..IukLen |-> Xor(input[i], ks[i])]
    IN  [ct |-> ct, tag |-> GcmTag(key, nonce_len, aad_bytes, ct)]

\* AesGcm::new(..).decrypt(input, output, tag) -> bool
AesGcmDecrypt(key, nonce_len, aad_bytes, input, tag) ==
    LET ks == KeyStream(key)
    IN  IF \A i \in 1..TagLen :
                tag[i] = GcmTagByte(key, nonce_len, aad_bytes, input, i)
        THEN [ok |-> TRUE, out |-> [i \in 1..IukLen |-> Xor(input[i], ks[i])]]
        ELSE [ok |-> FALSE, out |-> Zero(IukLen)]


\* ------------------------------------------------------ IdentityUnlock
IdentityUnlock(scrypt_config, identity_unlock_key, verification_data) ==
    [scrypt_config |-> scrypt_config,
     identity_unlock_key |-> identity_unlock_key,
     verification_data |-> verification_data]

get_type == RescueCodeType

\* associated data with the type tag in front of the declared length
C15_Mutant_AadBytes(self) ==
    DataTypeToBinary(get_type) \o U16LE(len) \o ScryptConfigToBinary(self.scrypt_config)

\* associated data that leaves the scrypt parameters out
C9_Mutant_AadBytes(self) == U16LE(len) \o DataTypeToBinary(get_type)

\* aad(): declared length, type tag, scrypt parameters
AadBytes(self) ==
    U16LE(len) \o DataTypeToBinary(get_type)
        \o ScryptConfigToBinary(self.scrypt_config)

\* aad() -> Result: enc_ok is whether the collaborators' to_binary succeeded
aad(self, enc_ok) ==
    IF enc_ok THEN [ok |-> TRUE, val |-> AadBytes(self)]
    ELSE [ok |-> FALSE, val |-> <<>>]

\* the key decrypt_identity_unlock_key opens with
OpenKey(self, rescue_code) == decode_rescue_code(rescue_code)

\* a decrypt that ignores what aes.decrypt returns
C3_Mutant_DecryptAccepted(verified) == TRUE

\* whether the result of aes.decrypt decides Ok or Err
DecryptAccepted(verified) == verified

decrypt_identity_unlock_key(self, rescue_code, enc_ok) ==
    LET key == OpenKey(self, rescue_code)
        a == aad(self, enc_ok)
        d == AesGcmDecrypt(key, OpenNonceLen, a.val,
                           self.identity_unlock_key, self.verification_data)
    IN  IF ~a.ok THEN [ok |-> FALSE, err |-> "encoding", val |-> Zero(IukLen)]
        ELSE IF DecryptAccepted(d.ok) THEN [ok |-> TRUE, err |-> "", val |-> d.out]
        ELSE [ok |-> FALSE, err |-> "auth", val |-> Zero(IukLen)]

\* a rotation that recovers the previous key whatever the block holds
C6_Mutant_NeedsRecovery(self) == TRUE

\* line 42: a stored ciphertext other than all-zero must be recovered first
NeedsRecovery(self) == self.identity_unlock_key /= Zero(IukLen)

\* a rotation that derives the sealing key from the caller's code
C8_Mutant_SealCode(rescue_code, fresh) == rescue_code

\* lines 47-49: the code the sealing key is derived from (the fresh one,
\* which shadows the parameter)
SealCode(rescue_code, fresh) == generate_rescue_code(fresh)

\* a rotation that stores the tag and not the ciphertext
C5_Mutant_Commit(self, encrypted_data, tag) == [self EXCEPT !.verification_data = tag]

\* a rotation that stores the zeroed buffer instead of what encrypt wrote
C7_Mutant_Commit(self, encrypted_data, tag) ==
    [self EXCEPT !.verification_data = tag, !.identity_unlock_key = Zero(IukLen)]

\* lines 52-58: the tag is written through &mut self.verification_data,
\* the ciphertext by the assignment that follows
Commit(self, encrypted_data, tag) ==
    [self EXCEPT !.verification_data = tag, !.identity_unlock_key = encrypted_data]

NoSeal == [key |-> NoKey, aad |-> <<>>, pt |-> Zero(IukLen), code |-> 0]

\* lines 41-44: the previous key, or the error that makes the call return
Recovery(self, rescue_code, enc_ok) ==
    IF NeedsRecovery(self)
    THEN [recovered |-> TRUE] @@ decrypt_identity_unlock_key(self, rescue_code, enc_ok)
    ELSE [recovered |-> FALSE, ok |-> TRUE, err |-> "", val |-> Zero(IukLen)]

\* a rejected call that has stored another iteration count by then
C16_Mutant_Rejected(self, d) ==
    [ok |-> FALSE, err |-> d.err,
     self |-> [self EXCEPT !.scrypt_config.iteration_factor = (@ % MaxIter) + 1],
     rescue_code |-> 0, previous |-> Zero(IukLen), recovered |-> d.recovered,
     generated |-> FALSE, seal |-> NoSeal]

\* the result of a call that returns at line 43
Rejected(self, d) ==
    [ok |-> FALSE, err |-> d.err, self |-> self, rescue_code |-> 0,
     previous |-> Zero(IukLen), recovered |-> d.recovered, generated |-> FALSE,
     seal |-> NoSeal]

\* a rotation that builds the associated data before it derives the key
C13_Mutant_Reseal(self, d, rescue_code, identity_unlock_key, fresh, refreshed, enc_ok2) ==
    LET new_code == SealCode(rescue_code, fresh)
        a == aad(self, enc_ok2)
        k == mut_en_scrypt(new_code, self.scrypt_config, ScryptSeconds, refreshed)
        derived == [self EXCEPT !.scrypt_config = k.scrypt_config]
    IN  IF ~a.ok
        THEN [ok |-> FALSE, err |-> "encoding", self |-> self, rescue_code |-> 0,
              previous |-> Zero(IukLen), recovered |-> d.recovered,
              generated |-> TRUE, seal |-> NoSeal]
        ELSE LET e == AesGcmEncrypt(k.key, SealNonceLen, a.val, identity_unlock_key)
             IN  [ok |-> TRUE, err |-> "", self |-> Commit(derived, e.ct, e.tag),
                  rescue_code |-> new_code, previous |-> d.val,
                  recovered |-> d.recovered, generated |-> TRUE,
                  seal |-> [key |-> k.key, aad |-> a.val, pt |-> identity_unlock_key,
                            code |-> new_code]]

\* lines 46-60: generate a code, derive the key (which refreshes the
\* configuration), build the associated data, seal, store
Reseal(self, d, rescue_code, identity_unlock_key, fresh, refreshed, enc_ok2) ==
    LET new_code == SealCode(rescue_code, fresh)
        k == mut_en_scrypt(new_code, self.scrypt_config, ScryptSeconds, refreshed)
        derived == [self EXCEPT !.scrypt_config = k.scrypt_config]
        a == aad(derived, enc_ok2)
    IN  IF ~a.ok
        THEN [ok |-> FALSE, err |-> "encoding", self |-> derived, rescue_code |-> 0,
              previous |-> Zero(IukLen), recovered |-> d.recovered,
              generated |-> TRUE, seal |-> NoSeal]
        ELSE LET e == AesGcmEncrypt(k.key, SealNonceLen, a.val, identity_unlock_key)
             IN  [ok |-> TRUE, err |-> "", self |-> Commit(derived, e.ct, e.tag),
                  rescue_code |-> new_code, previous |-> d.val,
                  recovered |-> d.recovered, generated |-> TRUE,
                  seal |-> [key |-> k.key, aad |-> a.val, pt |-> identity_unlock_key,
                            code |-> new_code]]

update_unlock_key(self, rescue_code, identity_unlock_key, fresh, refreshed, enc_ok, enc_ok2) ==
    LET d == Recovery(self, rescue_code, enc_ok)
    IN  IF ~d.ok THEN Rejected(self, d)
        ELSE Reseal(self, d, rescue_code, identity_unlock_key, fresh, refreshed, enc_ok2)

\* ScryptConfig::new(): a configuration with a fresh random salt
ScryptConfigNew(salt) == ScryptConfig(Salt(salt), 9, 1)

\* new(identity_unlock_key): update_unlock_key("", ..).unwrap() on a zeroed block
new(identity_unlock_key, salt, fresh, refreshed, enc_ok) ==
    LET identity_unlock == IdentityUnlock(ScryptConfigNew(salt), Zero(IukLen), Zero(TagLen))
        r == update_unlock_key(identity_unlock, 0, identity_unlock_key, fresh,
                               refreshed, enc_ok, enc_ok)
    IN  [panic |-> ~r.ok, self |-> r.self, rescue_code |-> r.rescue_code,
         recovered |-> r.recovered, seal |-> r.seal]

\* an encoder that writes the tag before the ciphertext
C10_Mutant_to_binary_inner(self, output, enc_ok) ==
    IF ~enc_ok THEN [ok |-> FALSE, output |-> output]
    ELSE [ok |-> TRUE,
          output |-> output \o ScryptConfigToBinary(self.scrypt_config)
                        \o self.verification_data \o self.identity_unlock_key]

\* to_binary_inner(&self, output): appends to output
to_binary_inner(self, output, enc_ok) ==
    IF ~enc_ok THEN [ok |-> FALSE, output |-> output]
    ELSE [ok |-> TRUE,
          output |-> output \o ScryptConfigToBinary(self.scrypt_config)
                        \o self.identity_unlock_key \o self.verification_data]

\* binary.next_sub_array(n)
next_sub_array(binary, n) ==
    IF Len(binary) < n THEN [ok |-> FALSE, val |-> <<>>, rest |-> binary]
    ELSE [ok |-> TRUE, val |-> Take(binary, n), rest |-> Drop(binary, n)]

NoBlock == IdentityUnlock(ScryptConfig(Salt(0), 0, 0), Zero(IukLen), Zero(TagLen))

\* what is left of n bytes cut from a short input, filled up with zeros
ZeroFilled(binary, n) == [i \in 1..n |-> IF i <= Len(binary) THEN binary[i] ELSE 0]

\* a decoder that fills a missing ciphertext or tag with zeros
C12_Mutant_from_binary(binary) ==
    LET c == ScryptConfigFromBinary(binary)
    IN  IF ~c.ok THEN [ok |-> FALSE, self |-> NoBlock, rest |-> c.rest]
        ELSE [ok |-> TRUE,
              self |-> IdentityUnlock(c.val, ZeroFilled(c.rest, IukLen),
                                      ZeroFilled(Drop(c.rest, IukLen), TagLen)),
              rest |-> Drop(c.rest, IukLen + TagLen)]

\* a decoder that reads the tag before the ciphertext
C14_Mutant_from_binary(binary) ==
    LET c == ScryptConfigFromBinary(binary)
        v == next_sub_array(c.rest, TagLen)
        k == next_sub_array(v.rest, IukLen)
    IN  IF ~c.ok THEN [ok |-> FALSE, self |-> NoBlock, rest |-> c.rest]
        ELSE IF ~v.ok THEN [ok |-> FALSE, self |-> NoBlock, rest |-> v.rest]
        ELSE IF ~k.ok THEN [ok |-> FALSE, self |-> NoBlock, rest |-> k.rest]
        ELSE [ok |-> TRUE, self |-> IdentityUnlock(c.val, k.val, v.val),
              rest |-> k.rest]

from_binary(binary) ==
    LET c == ScryptConfigFromBinary(binary)
        k == next_sub_array(c.rest, IukLen)
        v == next_sub_array(k.rest, TagLen)
    IN  IF ~c.ok THEN [ok |-> FALSE, self |-> NoBlock, rest |-> c.rest]
        ELSE IF ~k.ok THEN [ok |-> FALSE, self |-> NoBlock, rest |-> k.rest]
        ELSE IF ~v.ok THEN [ok |-> FALSE, self |-> NoBlock, rest |-> v.rest]
        ELSE [ok |-> TRUE, self |-> IdentityUnlock(c.val, k.val, v.val),
              rest |-> v.rest]


\* ------------------------------------------------------------- inputs
\* 32-byte IUKs (bytes in the low nibble)
IUKs == {Zero(IukLen)} \cup {[i \in 1..IukLen |-> (b + i) % 16] : b \in 1..MaxIukByte}

\* byte strings handed to from_binary: encodings of arbitrary blocks followed
\* by bytes of a next block, one of them cut short at every field boundary
SampleBlocks ==
    {IdentityUnlock(ScryptConfig(Salt(9), 9, 1), k, v) :
        k \in {Zero(IukLen), [i \in 1..IukLen |-> 100 + i]},
        v \in {Zero(TagLen), [i \in 1..TagLen |-> 200 + i]}}

Trailer == <<171, 205>>

SampleBytes(b) == to_binary_inner(b, <<>>, TRUE).output \o Trailer

CutPoints ==
    {0, ScryptConfigLen - 1, ScryptConfigLen, ScryptConfigLen + IukLen - 1,
     ScryptConfigLen + IukLen, ScryptConfigLen + IukLen + TagLen - 1,
     ScryptConfigLen + IukLen + TagLen}

CutBlock ==
    IdentityUnlock(ScryptConfig(Salt(9), 9, 1),
                   [i \in 1..IukLen |-> 100 + i], [i \in 1..TagLen |-> 200 + i])

SampleInputs ==
    {SampleBytes(b) : b \in SampleBlocks}
    \cup {Take(SampleBytes(CutBlock), n) : n \in CutPoints}

OutputPrefixes == {<<>>, <<7>>}

\* -------------------------------------------------------------- state
VARIABLES
    block,      \* the IdentityUnlock the caller holds
    origin,     \* "new": built by new and only rotated since; "binary": loaded
    cur,        \* the rotation that sealed the stored ciphertext: the code it
                \* returned, the IUK, the key and the associated data it sealed with
    nextCode,   \* the next fresh random value: rescue code, salt
    sealKeys,   \* the passwords of the keys that sealed a plaintext, in order
    last        \* the last call: its arguments and its result

vars == <<block, origin, cur, nextCode, sealKeys, last>>

NoCur == [valid |-> FALSE, code |-> 0, iuk |-> Zero(IukLen), key |-> NoKey,
          aad |-> <<>>]

Rotated(r, k) ==
    [valid |-> TRUE, code |-> r.rescue_code, iuk |-> k, key |-> r.seal.key,
     aad |-> r.seal.aad]

\* op: the call; code_in: its rescue-code argument; ok, err: Ok or the error;
\* ret_code, ret_val: the code and the 32 bytes returned; recovered: whether
\* the call opened the stored ciphertext; input: the bytes handed in (the
\* cursor, the Vec before); out: the cursor or Vec after the call
Call(op, code_in, ok, err, ret_code, ret_val, recovered, input, out) ==
    [op |-> op, code_in |-> code_in, ok |-> ok, err |-> err,
     ret_code |-> ret_code, ret_val |-> ret_val, recovered |-> recovered,
     input |-> input, out |-> out]

Init ==
    \E k \in IUKs, refreshed \in IterationFactors :
        \E r \in {new(k, 1, 1, refreshed, TRUE)} :
            /\ block = r.self
            /\ origin = "new"
            /\ cur = Rotated(r, k)
            /\ nextCode = 2
            /\ sealKeys = <<r.seal.key.code>>
            /\ last = Call("new", 0, TRUE, "", r.rescue_code, Zero(IukLen),
                           r.recovered, <<>>, <<>>)

\* IdentityUnlock::new(k); a failed inner rotation panics in unwrap and
\* the caller keeps what it had
New(k, refreshed, enc_ok) ==
    /\ nextCode <= MaxCodes
    /\ \E r \in {new(k, nextCode, nextCode, refreshed, enc_ok)} :
           /\ nextCode' = nextCode + 1
           /\ last' = Call("new", 0, ~r.panic, IF r.panic THEN "panic" ELSE "",
                           r.rescue_code, Zero(IukLen), r.recovered, <<>>, <<>>)
           /\ IF r.panic
              THEN UNCHANGED <<block, origin, cur, sealKeys>>
              ELSE /\ block' = r.self
                   /\ origin' = "new"
                   /\ cur' = Rotated(r, k)
                   /\ sealKeys' = Append(sealKeys, r.seal.key.code)

\* block.update_unlock_key(code, k): the arguments k, refreshed and enc[2]
\* are read only by a call that gets past line 43
Update(code, enc_ok) ==
    \E d \in {Recovery(block, code, enc_ok)} :
        IF ~d.ok
        THEN /\ block' = Rejected(block, d).self
             /\ last' = Call("update", code, FALSE, d.err, 0, Zero(IukLen),
                             d.recovered, <<>>, <<>>)
             /\ UNCHANGED <<origin, cur, nextCode, sealKeys>>
        ELSE /\ nextCode <= MaxCodes
             /\ \E k \in IUKs, refreshed \in IterationFactors, enc_ok2 \in BOOLEAN :
                  \E r \in {Reseal(block, d, code, k, nextCode, refreshed, enc_ok2)} :
                     /\ block' = r.self
                     /\ nextCode' = nextCode + 1
                     /\ cur' = IF r.ok THEN Rotated(r, k) ELSE cur
                     /\ sealKeys' = IF r.ok THEN Append(sealKeys, r.seal.key.code)
                                    ELSE sealKeys
                     /\ last' = Call("update", code, r.ok, r.err, r.rescue_code,
                                     r.previous, r.recovered, <<>>, <<>>)
                     /\ UNCHANGED origin

\* block.decrypt_identity_unlock_key(code)
Decrypt(code, enc_ok) ==
    \E r \in {decrypt_identity_unlock_key(block, code, enc_ok)} :
        /\ last' = Call("decrypt", code, r.ok, r.err, 0, r.val, TRUE, <<>>, <<>>)
        /\ UNCHANGED <<block, origin, cur, nextCode, sealKeys>>

\* block.to_binary_inner(&mut out) on a Vec that holds `prefix`
ToBinary(prefix, enc_ok) ==
    \E r \in {to_binary_inner(block, prefix, enc_ok)} :
        /\ last' = Call("to_binary", 0, r.ok, IF r.ok THEN "" ELSE "encoding", 0,
                        Zero(IukLen), FALSE, prefix, r.output)
        /\ UNCHANGED <<block, origin, cur, nextCode, sealKeys>>

\* header bytes an attacker edits in a stored block: the first salt byte,
\* the log-N byte, the last byte of the iteration count
TamperPositions == {1, SaltLen + 1, ScryptConfigLen}

Tampered(bytes) ==
    IF Len(bytes) < ScryptConfigLen THEN {}
    ELSE {[bytes EXCEPT ![p] = (bytes[p] + 1) % 256] : p \in TamperPositions}

\* the byte strings a caller hands to from_binary: the samples, what
\* to_binary_inner has just appended to the Vec, and, for a sealed block
\* whose header is as sealed, that with one header byte edited
BinaryInputs ==
    SampleInputs
    \cup (IF last.op = "to_binary" THEN {Drop(last.out, Len(last.input))} ELSE {})
    \cup (IF last.op = "to_binary" /\ cur.valid /\ cur.aad = AadBytes(block)
          THEN Tampered(Drop(last.out, Len(last.input)))
          ELSE {})

\* IdentityUnlock::from_binary(&mut binary); on an error the caller keeps
\* the block it had; a loaded block that carries the stored ciphertext and
\* tag is still the secret `cur` sealed
FromBinary(binary) ==
    \E r \in {from_binary(binary)} :
        /\ last' = Call("from_binary", 0, r.ok, IF r.ok THEN "" ELSE "structural",
                        0, Zero(IukLen), FALSE, binary, r.rest)
        /\ IF r.ok
           THEN /\ block' = r.self
                /\ origin' = "binary"
                /\ cur' = IF /\ r.self.identity_unlock_key = block.identity_unlock_key
                             /\ r.self.verification_data = block.verification_data
                          THEN cur
                          ELSE NoCur
           ELSE UNCHANGED <<block, origin, cur>>
        /\ UNCHANGED <<nextCode, sealKeys>>

Next ==
    \/ \E k \in IUKs, refreshed \in IterationFactors, e \in BOOLEAN :
          New(k, refreshed, e)
    \/ \E c \in Codes, e \in BOOLEAN : Update(c, e)
    \/ \E c \in Codes, e \in BOOLEAN : Decrypt(c, e)
    \/ \E p \in OutputPrefixes, e \in BOOLEAN : ToBinary(p, e)
    \/ \E b \in BinaryInputs : FromBinary(b)

Spec == Init /\ [][Next]_vars

\* --------------------------------------------------------- properties
Protected == block.identity_unlock_key /= Zero(IukLen)

Stored == [ct |-> block.identity_unlock_key, tag |-> block.verification_data]

\* the configuration the current ciphertext was sealed against
SealedConfig == ScryptConfig(cur.key.salt, cur.key.log_n, cur.key.iter)

\* C1: after new or a successful update_unlock_key returned rescue code r
\* for IUK K, decrypt_identity_unlock_key(r) on the block returns Ok(K).
C1_ProtectThenRecover ==
    (last.op \in {"new", "update"} /\ last.ok) =>
        LET d == decrypt_identity_unlock_key(block, last.ret_code, TRUE)
        IN  d.ok /\ d.val = cur.iuk

\* C2: a rotation of a block built by new, given the rescue code the
\* preceding successful rotation returned, succeeds and returns the IUK that
\* rotation protected (an encoder failure aside).
C2_RotationReturnsPrevious ==
    [][(/\ last'.op = "update"
        /\ origin = "new" /\ cur.valid
        /\ last'.code_in = cur.code
        /\ last'.err /= "encoding")
       => (last'.ok /\ last'.ret_val = cur.iuk)]_vars

\* C3: on a Protected block, decrypt_identity_unlock_key and
\* update_unlock_key called with any rescue code other than the one the most
\* recent successful rotation returned (the empty string and earlier codes
\* included) return an error, return no secret and leave the block as it is.
C3_WrongCredentialRejected ==
    (cur.valid /\ Protected) =>
        \A c \in Codes \ {cur.code}, e \in BOOLEAN :
            /\ \A d \in {decrypt_identity_unlock_key(block, c, e)} :
                 ~d.ok /\ d.val = Zero(IukLen)
            /\ \A k \in IUKs :
                 \A r \in {update_unlock_key(block, c, k, nextCode,
                                             block.scrypt_config.iteration_factor,
                                             e, TRUE)} :
                    ~r.ok /\ r.previous = Zero(IukLen) /\ r.self = block

C3_Witness ==
    /\ cur.valid /\ Protected
    /\ last.op = "update" /\ ~last.ok /\ last.err = "auth"
    /\ last.code_in /= cur.code
    /\ \E i \in DOMAIN sealKeys : sealKeys[i] = last.code_in

\* C4: whenever update_unlock_key returns an error, the three fields of the
\* block hold the values they had before the call.
C4_StateUnchangedOnError ==
    [][(last'.op = "update" /\ ~last'.ok) => block' = block]_vars

\* C5: after any sequence of new and update_unlock_key calls, successful or
\* failed, the stored ciphertext and tag are the two outputs of one seal:
\* that of the last successful rotation.
C5_CiphertextAndTagTogether ==
    /\ origin = "new" => cur.valid
    /\ cur.valid => Stored = AesGcmEncrypt(cur.key, SealNonceLen, cur.aad, cur.iuk)

C5_Witness == cur.valid /\ last.op = "update" /\ last.ok /\ Protected

\* C6: on an Uninitialized block (all-zero ciphertext) update_unlock_key
\* opens nothing whatever the rescue-code argument, returns the all-zero
\* array as previous secret and leaves the block Protected with the new IUK
\* sealed; it fails only when the encoder of the associated data fails.
C6_FirstUse ==
    /\ block.identity_unlock_key = Zero(IukLen) =>
         \A k \in IUKs, f \in IterationFactors :
            \A r \in {update_unlock_key(block, 0, k, nextCode, f, TRUE, TRUE)} :
                /\ r.ok /\ ~r.recovered
                /\ r.previous = Zero(IukLen)
                /\ r.self.identity_unlock_key /= Zero(IukLen)
                /\ AesGcmDecrypt(r.seal.key, SealNonceLen, AadBytes(r.self),
                                 r.self.identity_unlock_key,
                                 r.self.verification_data)
                       = [ok |-> TRUE, out |-> k]
                /\ \A c \in Codes, e \in BOOLEAN :
                     /\ update_unlock_key(block, c, k, nextCode, f, e, TRUE) = r
                     /\ ~update_unlock_key(block, c, k, nextCode, f, e, FALSE).ok
    /\ (last.op = "update" /\ last.ok /\ ~last.recovered) =>
         (last.ret_val = Zero(IukLen) /\ Protected /\ cur.valid)

C6_Witness ==
    /\ last.op = "update" /\ last.ok /\ ~last.recovered
    /\ last.code_in /= 0
    /\ Protected

\* C7: in every state reached from new by update_unlock_key calls the stored
\* ciphertext is not the all-zero sentinel, and every such call has gone
\* through the recovery step; and whatever block a seal was committed to,
\* its ciphertext is not the sentinel.
C7_SentinelNeverReappears ==
    /\ origin = "new" =>
          /\ block.identity_unlock_key /= Zero(IukLen)
          /\ last.op = "update" => last.recovered
    /\ cur.valid => block.identity_unlock_key /= Zero(IukLen)

C7_Witness ==
    origin = "new" /\ last.op = "update" /\ last.recovered /\ last.code_in = 0

\* C8: every successful rotation returns the code generate_rescue_code has
\* just produced, whatever code the caller supplied; the sealing key is
\* derived from that code; no password has sealed twice; and the key derived
\* from the returned code against the stored configuration opens the stored
\* ciphertext to the IUK that was sealed.
C8_OneKeyPerEncryption ==
    /\ \A i, j \in DOMAIN sealKeys : i /= j => sealKeys[i] /= sealKeys[j]
    /\ (last.op \in {"new", "update"} /\ last.ok) =>
         /\ last.ret_code = nextCode - 1
         /\ cur.valid /\ cur.code = last.ret_code
         /\ sealKeys[Len(sealKeys)] = last.ret_code
    /\ cur.valid =>
         /\ cur.key.kind = 1 /\ cur.key.code = cur.code
         /\ cur.key.secs = ScryptSeconds
    /\ (cur.valid /\ block.scrypt_config = SealedConfig) =>
         AesGcmDecrypt(mut_en_scrypt(cur.code, block.scrypt_config, ScryptSeconds,
                                     block.scrypt_config.iteration_factor).key,
                       SealNonceLen, AadBytes(block), Stored.ct, Stored.tag)
             = [ok |-> TRUE, out |-> cur.iuk]

C8_Witness ==
    /\ Len(sealKeys) >= 2
    /\ last.op = "update" /\ last.ok
    /\ last.code_in /= 0 /\ last.code_in /= last.ret_code

\* C9: on a Protected block the tag binds the header: with the scrypt
\* parameters as sealed the stored tag verifies under the sealing key; with
\* any parameter changed, or any byte of the associated data (length, type
\* tag, parameters) changed, it does not, and decrypt_identity_unlock_key
\* fails with an authentication error for every rescue code, the returned one
\* included.
C9_AadBinding ==
    (cur.valid /\ Protected) =>
        /\ block.scrypt_config = SealedConfig =>
             AesGcmDecrypt(cur.key, OpenNonceLen, AadBytes(block), Stored.ct,
                           Stored.tag).ok
        /\ block.scrypt_config /= SealedConfig =>
             /\ ~AesGcmDecrypt(cur.key, OpenNonceLen, AadBytes(block), Stored.ct,
                               Stored.tag).ok
             /\ \A c \in Codes :
                  decrypt_identity_unlock_key(block, c, TRUE)
                      = [ok |-> FALSE, err |-> "auth", val |-> Zero(IukLen)]
        /\ \A p \in DOMAIN cur.aad :
             ~AesGcmDecrypt(cur.key, OpenNonceLen,
                            [cur.aad EXCEPT ![p] = (@ + 1) % 256], Stored.ct,
                            Stored.tag).ok

C9_Witness ==
    /\ cur.valid /\ Protected
    /\ block.scrypt_config /= SealedConfig
    /\ last.op = "decrypt" /\ last.code_in = cur.code
    /\ ~last.ok /\ last.err = "auth"

\* C10: from_binary applied to the bytes to_binary_inner wrote yields a block
\* equal to the original in its three fields, and consumes exactly those
\* bytes.
C10_SerializationRoundTrip ==
    /\ \A p \in OutputPrefixes :
         LET w == to_binary_inner(block, p, TRUE)
         IN  /\ w.ok
             /\ from_binary(Drop(w.output, Len(p)) \o Trailer)
                    = [ok |-> TRUE, self |-> block, rest |-> Trailer]
    /\ \A b \in SampleBlocks :
         from_binary(to_binary_inner(b, <<>>, TRUE).output)
             = [ok |-> TRUE, self |-> b, rest |-> <<>>]

C10_Witness ==
    /\ last.op = "from_binary" /\ last.ok /\ last.out = <<>>
    /\ origin = "binary" /\ cur.valid /\ Protected
    /\ block.scrypt_config = SealedConfig

\* the bytes to_binary_inner writes for the block the caller holds
Encoded == to_binary_inner(block, <<>>, TRUE).output

\* C12: from_binary given fewer than 73 bytes returns a structural error and
\* no block: every proper prefix of a block's encoding is rejected, none is
\* completed with zeros.
C12_TruncatedInput ==
    /\ \A n \in 0..(len - 1) :
         \A r \in {from_binary(Take(Encoded, n))} :
            ~r.ok /\ r.self = NoBlock
    /\ (last.op = "from_binary" /\ Len(last.input) < len) =>
         (~last.ok /\ last.err = "structural")

C12_Witness ==
    /\ last.op = "from_binary" /\ ~last.ok /\ last.err = "structural"
    /\ Len(last.input) >= ScryptConfigLen
    /\ Len(last.input) < len

\* C13: after every successful rotation the associated data the seal used is
\* aad() of the block as stored, that is, of the configuration as the key
\* derivation left it; the stored tag verifies against the recomputed
\* associated data under the sealing key.
C13_AadAfterDerivation ==
    (last.op \in {"new", "update"} /\ last.ok) =>
        /\ aad(block, TRUE) = [ok |-> TRUE, val |-> cur.aad]
        /\ block.scrypt_config = SealedConfig
        /\ AesGcmDecrypt(cur.key, OpenNonceLen, aad(block, TRUE).val, Stored.ct,
                         Stored.tag)
               = [ok |-> TRUE, out |-> cur.iuk]

\* the only rotation since the start, on the sample configuration, with the
\* derivation having changed the iteration count from 1 to 2
C13_Witness ==
    /\ last.op = "update" /\ last.ok
    /\ nextCode = 3
    /\ block.scrypt_config = ScryptConfig(Salt(9), 9, 2)
    /\ cur.aad = AadBytes(block)

\* result r of from_binary(binary) is the three fields as laid out in binary
DecodedAsLaidOut(binary, r) ==
    /\ r.ok <=> Len(binary) >= len
    /\ r.ok =>
         /\ r.self.scrypt_config =
              ScryptConfigFromBinary(SubSeq(binary, 1, ScryptConfigLen)).val
         /\ r.self.identity_unlock_key =
              SubSeq(binary, ScryptConfigLen + 1, ScryptConfigLen + IukLen)
         /\ r.self.verification_data =
              SubSeq(binary, ScryptConfigLen + IukLen + 1, len)
         /\ r.rest = SubSeq(binary, len + 1, Len(binary))

\* C14: from_binary reads the scrypt parameters, then 32 bytes of ciphertext,
\* then 16 bytes of tag, in that order; it fails exactly when fewer than 73
\* bytes are there, and on success it has taken exactly 73 bytes from the
\* front and left the bytes that follow as they were.
C14_DecodeOrderAndConsumption ==
    /\ \A b \in BinaryInputs \cup {Encoded \o Trailer} :
         \A r \in {from_binary(b)} : DecodedAsLaidOut(b, r)
    /\ last.op = "from_binary" =>
         /\ last.ok <=> Len(last.input) >= len
         /\ last.ok =>
              /\ last.out = SubSeq(last.input, len + 1, Len(last.input))
              /\ block.identity_unlock_key =
                   SubSeq(last.input, ScryptConfigLen + 1, ScryptConfigLen + IukLen)
              /\ block.verification_data =
                   SubSeq(last.input, ScryptConfigLen + IukLen + 1, len)

C14_Witness ==
    /\ last.op = "from_binary" /\ last.ok
    /\ last.out = Trailer
    /\ block.identity_unlock_key = [i \in 1..IukLen |-> 100 + i]
    /\ block.verification_data = [i \in 1..TagLen |-> 200 + i]

\* C15: aad() returns the two bytes 0x49 0x00 (the declared length 73, little
\* endian), then the encoding of the RescueCode type tag, then the serialized
\* scrypt parameters, and nothing else; it does not depend on the ciphertext
\* or the tag.
C15_AadLayout ==
    \A a \in {aad(block, TRUE)} :
        /\ a.ok
        /\ Len(a.val) = 2 + Len(DataTypeToBinary(get_type)) + ScryptConfigLen
        /\ SubSeq(a.val, 1, 2) = <<73, 0>>
        /\ SubSeq(a.val, 3, 2 + Len(DataTypeToBinary(get_type)))
               = DataTypeToBinary(RescueCodeType)
        /\ Drop(a.val, 2 + Len(DataTypeToBinary(get_type)))
               = ScryptConfigToBinary(block.scrypt_config)
        /\ \A b \in SampleBlocks :
             aad([b EXCEPT !.scrypt_config = block.scrypt_config], TRUE) = a

C15_Witness ==
    /\ cur.valid /\ Protected
    /\ cur.aad = <<73, 0>> \o DataTypeToBinary(RescueCodeType)
                   \o ScryptConfigToBinary(block.scrypt_config)
    /\ last.op = "decrypt" /\ last.err = "encoding"

\* C16: a call of decrypt_identity_unlock_key, and a rotation rejected for
\* its rescue code, leave scrypt_config, ciphertext and tag as they were, so
\* that a later recovery with the code the last rotation returned has the
\* outcome it would have had before.
C16_RecoveryReadOnly ==
    [][(\/ last'.op = "decrypt"
        \/ (last'.op = "update" /\ last'.recovered /\ last'.err = "auth"))
       => /\ block' = block
          /\ decrypt_identity_unlock_key(block', cur.code, TRUE)
                = decrypt_identity_unlock_key(block, cur.code, TRUE)]_vars

C16_Witness ==
    /\ cur.valid /\ Protected
    /\ block.scrypt_config = SealedConfig
    /\ last.op = "update" /\ last.recovered /\ last.err = "auth"
    /\ last.code_in /= cur.code
    /\ last.code_in = 0

====
